---- MODULE Spec2Model ----
(***************************************************************************)
(* Model of src/loader.py: class DataLoader (a keras Sequence).            *)
(*                                                                         *)
(* A 2D array is modelled by its identity and its shape; a view cut out of *)
(* it by the row and column indices (0-based, as in numpy) that it keeps.  *)
(* Python's None is the empty tuple << >>, an integer patch size P is the   *)
(* one-element tuple <<P>>.  Probabilities are percentages.                *)
(***************************************************************************)
EXTENDS Integers, Sequences, FiniteSets

VARIABLES mode, batch_size, train_pair, patch_size, ldct, ndct, input_size,
          indexes, prob_distort, prob_elastic, prob_histeq, aug,
          lastOp, result, epoch

vars == <<mode, batch_size, train_pair, patch_size, ldct, ndct, input_size,
          indexes, prob_distort, prob_elastic, prob_histeq, aug,
          lastOp, result, epoch>>

config == <<mode, batch_size, train_pair, patch_size, ldct, ndct, input_size>>

(* ------------------------------ bounds --------------------------------- *)
MaxN == 3
MaxEvalN == 5
MaxBatch == 2
MaxDim == 4
MaxPatch == 4
IdxSlack == 1

Modes == {"train", "valid", "test"}
None == << >>
ParamChoices == {<<0, 0, 0>>, <<100, 50, 0>>}

(* ------------------------ Python / numpy helpers ------------------------ *)
\* A slice bound clamped the way Python clamps it on a sequence of length n.
PyNorm(n, i) ==
    IF i < 0 THEN (IF i + n < 0 THEN 0 ELSE i + n)
    ELSE IF i > n THEN n ELSE i

\* The 0-based indices that seq[a:b] keeps of a sequence of length n.
PySliceIdx(n, a, b) ==
    LET s == PyNorm(n, a)
        e == PyNorm(n, b)
    IN  [k \in 1..(IF e > s THEN e - s ELSE 0) |-> s + k - 1]

\* seq[a:b]
PySlice(seq, a, b) ==
    LET ix == PySliceIdx(Len(seq), a, b)
    IN  [k \in 1..Len(ix) |-> seq[ix[k] + 1]]

\* seq[i] of a Python list: a negative i counts from the end; << >> when
\* the index is out of range (IndexError).
PyIndex(seq, i) ==
    LET k == IF i < 0 THEN i + Len(seq) ELSE i
    IN  IF k >= 0 /\ k < Len(seq) THEN <<seq[k + 1]>> ELSE << >>

\* np.arange(n)
arange(n) == [k \in 1..n |-> k - 1]

\* np.random.shuffle(seq): every rearrangement of seq.
shuffle_resample(seq) ==
    [1..Len(seq) -> {seq[k] : k \in 1..Len(seq)}]
shuffle(seq) ==
    LET RECURSIVE orders(_)
        orders(S) == IF S = {} THEN {<< >>}
                     ELSE UNION {{<<k>> \o o : o \in orders(S \ {k})} : k \in S}
    IN  {[k \in 1..Len(seq) |-> seq[o[k]]] : o \in orders(1..Len(seq))}

\* np.random.randint(low, high): the draws, none when low >= high (ValueError).
randint_inclusive(low, high) == low..high
randint(low, high) == low..(high - 1)

\* bx[i] = arr: numpy assigns a (r, c) array into a (h, w) row when each
\* dimension matches or is 1 (broadcast).
CanAssign(shape, into) ==
    /\ Len(shape) = Len(into)
    /\ \A d \in 1..Len(shape) : shape[d] = into[d] \/ shape[d] = 1

(* ------------------------------ outcomes ------------------------------- *)
Raise(kind) == [status |-> "error", error |-> kind, rows |-> << >>, cols |-> << >>]
View(rows, cols) == [status |-> "ok", error |-> "", rows |-> rows, cols |-> cols]
ViewShape(v) == <<Len(v.rows), Len(v.cols)>>

(* ---------------------------- DataLoader ------------------------------- *)
\* __len__
len_ == Len(ldct) \div batch_size

\* on_epoch_end: the permutations it may leave in self.indexes.
on_epoch_end_any_mode(m, ix) == shuffle(ix)
on_epoch_end_indexes(m, ix) == IF m = "train" THEN shuffle(ix) ELSE {ix}

\* __getitem__, line 48: the window of the permutation.
window_overlap(ix, idx, bs) == PySlice(ix, idx * bs, (idx + 1) * bs + 1)
window(ix, idx, bs) == PySlice(ix, idx * bs, (idx + 1) * bs)

\* getbatch, lines 86-89: the pairing policy.
pair_no_zero_case(tp, ldct_i) == IF tp THEN ldct_i ELSE ldct_i - 1
pair(tp, ldct_i) ==
    IF tp THEN ldct_i
    ELSE IF ldct_i # 0 THEN ldct_i - 1 ELSE ldct_i + 1

\* center_crop: startx (and starty) for an extent x and a patch size p.
center_start_of_difference(x, p) == (x - p) \div 2
center_start(x, p) == (x \div 2) - (p \div 2)

\* center_crop(img)
center_crop(img) ==
    IF patch_size = None
    THEN {Raise("TypeError")}
    ELSE LET p == patch_size[1]
             x == img.shape[1]
             y == img.shape[2]
             startx == center_start(x, p)
             starty == center_start(y, p)
         IN  {View(PySliceIdx(x, startx, startx + p),
                   PySliceIdx(y, starty, starty + p))}

\* random_crop(img, mask): both views share the offsets, so one view stands
\* for the two.  np.random.randint raises ValueError when it has no draw.
random_crop(img, mask) ==
    IF img.shape # mask.shape THEN {Raise("AssertionError")}
    ELSE IF patch_size = None THEN {Raise("UnboundLocalError")}
    ELSE LET p == patch_size[1]
             h == img.shape[1]
             w == img.shape[2]
         IN  IF randint(0, h - p) = {} \/ randint(0, w - p) = {}
             THEN {Raise("ValueError")}
             ELSE {View(PySliceIdx(h, x, x + p), PySliceIdx(w, y, y + p)) :
                      x \in randint(0, h - p), y \in randint(0, w - p)}

Sample(j, t, src, tgt, iv, mv) ==
    [ldct_i |-> j, ndct_i |-> t, src |-> src, tgt |-> tgt,
     rows |-> iv.rows, cols |-> iv.cols, mrows |-> mv.rows, mcols |-> mv.cols]

Failed(kind) == [status |-> "error", error |-> kind, sample |-> << >>]
Filled(s) == [status |-> "ok", error |-> "", sample |-> <<s>>]

\* getbatch, the body of the loop for one index of the window.
getbatch_one(ldct_i) ==
    LET ndct_i == pair(train_pair, ldct_i)
        a == PyIndex(ldct, ldct_i)
        b == PyIndex(ndct, ndct_i)
    IN  IF a = << >> \/ b = << >> THEN {Failed("IndexError")}
        ELSE IF mode = "train"
        THEN {IF v.status = "error" THEN Failed(v.error)
              ELSE IF ~CanAssign(ViewShape(v), input_size) THEN Failed("ValueError")
              ELSE Filled(Sample(ldct_i, ndct_i, a[1], b[1], v, v)) :
                 v \in random_crop(a[1], b[1])}
        ELSE {IF iv.status = "error" THEN Failed(iv.error)
              ELSE IF mv.status = "error" THEN Failed(mv.error)
              ELSE IF ~CanAssign(ViewShape(iv), input_size) THEN Failed("ValueError")
              ELSE IF ~CanAssign(ViewShape(mv), input_size) THEN Failed("ValueError")
              ELSE Filled(Sample(ldct_i, ndct_i, a[1], b[1], iv, mv)) :
                 iv \in center_crop(a[1]), mv \in center_crop(b[1])}

Batch(status, error, win, samples) ==
    [status |-> status, error |-> error, window |-> win, samples |-> samples,
     shape |-> IF status = "ok" THEN <<batch_size>> \o input_size \o <<1>> ELSE << >>,
     aug |-> IF mode = "train" THEN aug ELSE << >>]

\* getbatch(indexes): the loop; the first failing sample ends the call.
RECURSIVE getbatch_from(_, _, _)
getbatch_from(win, k, done) ==
    IF k > Len(win) THEN {Batch("ok", "", win, done)}
    ELSE UNION {IF o.status = "error"
                THEN {Batch("error", o.error, win, done)}
                ELSE getbatch_from(win, k + 1, done \o o.sample) :
                   o \in getbatch_one(win[k])}

getbatch(win) == getbatch_from(win, 1, << >>)

NoResult == Batch("none", "", << >>, << >>)

(* ------------------------------ actions -------------------------------- *)
Store(name, n, h, w) == [k \in 1..n |-> [name |-> name, slot |-> k - 1, shape |-> <<h, w>>]]

\* __init__ for one configuration.
Construct(m, n, bs, tp, ps, h, w) ==
    /\ mode = m
    /\ batch_size = bs
    /\ train_pair = tp
    /\ patch_size = ps
    /\ ldct = Store("ldct", n, h, w)
    /\ ndct = Store("ndct", n, h, w)
    /\ input_size = IF ps # None THEN <<ps[1], ps[1]>> ELSE <<h, w>>
    /\ indexes \in on_epoch_end_indexes(m, arange(n))
    /\ prob_distort = 0
    /\ prob_elastic = 0
    /\ prob_histeq = 0
    /\ aug = <<0, 0, 0>>
    /\ lastOp = [name |-> "__init__", idx |-> 0]
    /\ result = Batch("none", "", << >>, << >>)
    /\ epoch = {}

PatchSizes == {None} \cup {<<p>> : p \in 1..MaxPatch}

\* Loaders over a store of 2x2 arrays: the batching protocol.
ProtoShape == <<2, 2>>
ProtoPatchSizes == {None, <<1>>, <<2>>}

\* Store sizes: a train loader reshuffles into every order of its store, so
\* its stores are the smaller ones.
StoreSizes(m) == IF m = "train" THEN 1..MaxN ELSE 1..MaxEvalN

Init ==
    \E m \in Modes, bs \in 1..MaxBatch, tp \in BOOLEAN, ps \in ProtoPatchSizes :
        \E n \in StoreSizes(m) :
            Construct(m, n, bs, tp, ps, ProtoShape[1], ProtoShape[2])

\* Loaders of one-sample batches over two arrays of every small shape: cropping.
CropInit ==
    \E m \in Modes, tp \in BOOLEAN, ps \in PatchSizes,
       h \in 1..MaxDim, w \in 1..MaxDim :
        Construct(m, 2, 1, tp, ps, h, w)

on_epoch_end ==
    /\ indexes' \in on_epoch_end_indexes(mode, indexes)
    /\ lastOp' = [name |-> "on_epoch_end", idx |-> 0]
    /\ result' = NoResult
    /\ epoch' = {}
    /\ UNCHANGED <<config, prob_distort, prob_elastic, prob_histeq, aug>>

set_params ==
    \E p \in ParamChoices :
        /\ prob_distort' = p[1]
        /\ prob_elastic' = p[2]
        /\ prob_histeq' = p[3]
        /\ lastOp' = [name |-> "set_params", idx |-> 0]
        /\ result' = NoResult
        /\ UNCHANGED <<config, indexes, aug, epoch>>

get_augmentation ==
    /\ aug' = <<prob_distort, prob_elastic, prob_histeq>>
    /\ lastOp' = [name |-> "get_augmentation", idx |-> 0]
    /\ result' = NoResult
    /\ UNCHANGED <<config, indexes, prob_distort, prob_elastic, prob_histeq, epoch>>

\* __getitem__(idx); epoch keeps the windows of the in-range positions
\* asked for since the last on_epoch_end.
getitem ==
    \E idx \in (0 - IdxSlack)..(len_ + IdxSlack - 1) :
        LET win == window(indexes, idx, batch_size)
        IN  /\ result' \in getbatch(win)
            /\ lastOp' = [name |-> "__getitem__", idx |-> idx]
            /\ epoch' = IF idx >= 0 /\ idx < len_
                        THEN epoch \cup {<<idx, win>>} ELSE epoch
            /\ UNCHANGED <<config, indexes, prob_distort, prob_elastic,
                           prob_histeq, aug>>

Next == on_epoch_end \/ set_params \/ get_augmentation \/ getitem

Spec == Init /\ [][Next]_vars
CropSpec == CropInit /\ [][Next]_vars

(* ------------------------------ properties ----------------------------- *)
N == Len(ldct)
IsGet == lastOp.name = "__getitem__"
InRange == lastOp.idx >= 0 /\ lastOp.idx < len_
Returned == result.status = "ok"
Range(seq) == {seq[k] : k \in 1..Len(seq)}
Consecutive(seq) == \A k \in 1..Len(seq) : seq[k] = seq[1] + k - 1
H == ldct[1].shape[1]
W == ldct[1].shape[2]

\* C1: in every reachable state self.indexes has length N and holds each
\* integer of [0, N) exactly once.
C1_IndexesIsPermutation ==
    /\ Len(indexes) = N
    /\ \A v \in 0..(N - 1) : Cardinality({k \in 1..Len(indexes) : indexes[k] = v}) = 1

\* C1 witness: a train loader, reshuffled away from the identity, with the
\* parameters set, has served a batch.
C1_Witness ==
    /\ mode = "train"
    /\ IsGet /\ Returned
    /\ prob_distort = 100
    /\ indexes # arange(N)
    /\ N >= 3

\* C2 (as claimed): a batch served by a train loader was augmented with the
\* probabilities that set_params stored last.
C2_SetParamsTakesEffect ==
    (IsGet /\ mode = "train" /\ Returned /\ result.samples # << >>)
        => result.aug = <<prob_distort, prob_elastic, prob_histeq>>

\* C3 (as claimed): __getitem__ at a position outside [0, len) fails with an
\* out-of-range error and returns no batch.
C3_OutOfRangeFails ==
    (IsGet /\ ~InRange) => (result.status = "error" /\ result.error = "IndexError")

\* C4: len is floor(N / batch_size); the windows served since the last
\* on_epoch_end hold batch_size distinct indices each and are pairwise
\* disjoint, and once every position has been served exactly N mod batch_size
\* indices were never drawn.
C4_EpochPass ==
    LET drawn == UNION {Range(e[2]) : e \in epoch}
    IN  /\ len_ * batch_size + (N % batch_size) = N
        /\ \A e \in epoch :
              /\ Len(e[2]) = batch_size
              /\ Cardinality(Range(e[2])) = batch_size
              /\ Range(e[2]) \subseteq 0..(N - 1)
        /\ \A e, f \in epoch : e[1] # f[1] => Range(e[2]) \cap Range(f[2]) = {}
        /\ ({e[1] : e \in epoch} = 0..(len_ - 1))
              => Cardinality((0..(N - 1)) \ drawn) = N % batch_size

\* C4 witness: a complete pass of two or more batches that leaves a sample out.
C4_Witness ==
    /\ IsGet
    /\ len_ >= 2
    /\ {e[1] : e \in epoch} = 0..(len_ - 1)
    /\ N % batch_size # 0
    /\ Cardinality(UNION {Range(e[2]) : e \in epoch}) = N - (N % batch_size)

\* C5: only on_epoch_end of a train loader changes self.indexes; a valid or
\* test loader keeps the identity of its construction.
C5_OnlyTrainEpochEndShuffles ==
    /\ [](mode # "train" => indexes = arange(N))
    /\ [][indexes' # indexes => (lastOp'.name = "on_epoch_end" /\ mode = "train")]_vars

\* C5 witness: on_epoch_end has run on a loader that is not a train loader
\* and left the identity in place.
C5_Witness ==
    /\ mode # "train"
    /\ lastOp.name = "on_epoch_end"
    /\ N > 1
    /\ indexes = arange(N)

\* C6 (as claimed): with patch_size None every in-range __getitem__ returns
\* batches of shape (batch_size, H, W, 1).
C6_FullSizeBatch ==
    (IsGet /\ InRange /\ patch_size = None)
        => (Returned /\ result.shape = <<batch_size, H, W, 1>>)

\* C7 (as claimed): an in-range __getitem__ fails whenever the patch size
\* exceeds the array shape in either dimension.
C7_OversizePatchFails ==
    (IsGet /\ InRange /\ patch_size # None /\ (patch_size[1] > H \/ patch_size[1] > W))
        => result.status = "error"

\* Target index of the pairing policy, as the claim words it.
C8_Target(j) == IF train_pair THEN j ELSE IF j = 0 THEN 1 ELSE j - 1

\* C8: every sample of a batch pairs source j with target j when train_pair
\* holds, and otherwise with target j-1, or 1 when j is 0; the arrays used are
\* sources[j] and targets[target index].
C8_PairingPolicy ==
    IsGet => \A k \in 1..Len(result.samples) :
                LET s == result.samples[k]
                IN  /\ s.ldct_i = result.window[k]
                    /\ s.ndct_i = C8_Target(s.ldct_i)
                    /\ s.src = [name |-> "ldct", slot |-> s.ldct_i, shape |-> <<H, W>>]
                    /\ s.tgt = [name |-> "ndct", slot |-> s.ndct_i, shape |-> <<H, W>>]

\* C8 witness: adjacent-slice pairing has served source 0 (with target 1) and
\* a later source in one batch.
C8_Witness ==
    /\ IsGet /\ Returned /\ ~train_pair
    /\ \E k \in 1..Len(result.samples) :
          result.samples[k].ldct_i = 0 /\ result.samples[k].ndct_i = 1
    /\ \E k \in 1..Len(result.samples) :
          result.samples[k].ldct_i = 2 /\ result.samples[k].ndct_i = 1

\* The samples that center_crop cut with a patch size that fits the array.
C9_Case == IsGet /\ mode # "train" /\ patch_size # None
              /\ patch_size[1] <= H /\ patch_size[1] <= W

\* C9 (as claimed): the window is (P, P) at X//2 - P//2, Y//2 - P//2, and
\* for every odd P that offset is (X - P)//2, (Y - P)//2.
C9_OddPatchOffset ==
    C9_Case => \A k \in 1..Len(result.samples) :
        LET s == result.samples[k]
            P == patch_size[1]
        IN  /\ Len(s.rows) = P /\ Len(s.cols) = P
            /\ s.rows[1] = (H \div 2) - (P \div 2)
            /\ s.cols[1] = (W \div 2) - (P \div 2)
            /\ (P % 2 = 1) => (s.rows[1] = (H - P) \div 2 /\ s.cols[1] = (W - P) \div 2)

\* C9 (amended): the window is (P, P), inside the array, at X//2 - P//2,
\* Y//2 - P//2; for odd P that offset is (X - P)//2 when the extent X is odd
\* and (X - P)//2 + 1 when X is even (likewise for Y).
C9_CenterCrop ==
    C9_Case => \A k \in 1..Len(result.samples) :
        LET s == result.samples[k]
            P == patch_size[1]
            Off(x) == IF x % 2 = 1 THEN (x - P) \div 2 ELSE (x - P) \div 2 + 1
        IN  /\ Len(s.rows) = P /\ Len(s.cols) = P
            /\ Consecutive(s.rows) /\ Consecutive(s.cols)
            /\ s.rows[1] >= 0 /\ s.rows[P] < H
            /\ s.cols[1] >= 0 /\ s.cols[P] < W
            /\ s.rows[1] = (H \div 2) - (P \div 2)
            /\ s.cols[1] = (W \div 2) - (P \div 2)
            /\ (P % 2 = 1) => (s.rows[1] = Off(H) /\ s.cols[1] = Off(W))

\* C9 witness: a center crop with an odd patch size out of an array of even
\* height and odd width.
C9_Witness ==
    /\ C9_Case /\ Returned /\ InRange
    /\ patch_size[1] % 2 = 1 /\ H % 2 = 0 /\ W % 2 = 1
    /\ Len(result.samples) = batch_size
    /\ result.samples[1].rows[1] = 1
    /\ result.samples[1].cols[1] = 1

\* C10: every sample that random_crop cut is the window [x, x+P) x [y, y+P)
\* with x in [0, H-P) and y in [0, W-P), the same for both arrays, inside
\* them, out of arrays with H > P and W > P; an in-range __getitem__ of a
\* train loader with an integer patch size and H <= P or W <= P fails.
C10_RandomCrop ==
    (IsGet /\ mode = "train" /\ patch_size # None) =>
        LET P == patch_size[1]
        IN  /\ \A k \in 1..Len(result.samples) :
                  LET s == result.samples[k]
                  IN  /\ H > P /\ W > P
                      /\ Len(s.rows) = P /\ Len(s.cols) = P
                      /\ Consecutive(s.rows) /\ Consecutive(s.cols)
                      /\ s.rows[1] \in 0..(H - P - 1)
                      /\ s.cols[1] \in 0..(W - P - 1)
                      /\ s.rows[P] < H /\ s.cols[P] < W
                      /\ s.mrows = s.rows /\ s.mcols = s.cols
            /\ (InRange /\ (H <= P \/ W <= P)) => result.status = "error"

\* C10 witness: a random crop at the largest offsets the draw allows.
C10_Witness ==
    /\ IsGet /\ mode = "train" /\ patch_size # None /\ Returned /\ InRange
    /\ Len(result.samples) = batch_size
    /\ result.samples[1].rows[1] = H - patch_size[1] - 1
    /\ result.samples[1].cols[1] = W - patch_size[1] - 1
    /\ result.samples[1].rows[1] > 0
    /\ result.samples[1].cols[1] > 0
====
